---- MODULE Spec2Model ----
(***************************************************************************)
(* Model of custom_components/blitzortung/geo_location.py:                 *)
(*   async_setup_entry, Strikes (insort / cleanup), BlitzortungEventManager*)
(*   (lightning_cb / _remove_events / tick) and BlitzortungEvent.__init__. *)
(*                                                                         *)
(* Time is modelled on an integer lattice: payload times are integers, the *)
(* publication date (the sort key) is the payload time divided by NsPerSec,*)
(* and the wall clock and the retention window count key units.            *)
(***************************************************************************)
EXTENDS Integers, Sequences, FiniteSets, TLC

\* ---------------------------------------------------------------- bounds
MaxCapacity == 2       \* largest configured max_tracked_lightnings
MaxStrikes  == 3       \* number of events constructed in one behaviour
MaxTime     == 3       \* largest payload time
MaxClock    == 2       \* largest value read from time.time()
MaxWindow   == 1       \* largest configured time_window_seconds
NsPerSec    == 2       \* payload time units per key unit (1e9 in the source)

\* The configured capacity is any integer the configuration holds; one
\* negative value stands for the negative ones.
Capacities == -1..MaxCapacity

\* Payload times start below zero, so that keys on both sides of the initial
\* running maximum (0) occur.
Times      == -1..MaxTime

Windows    == 1..MaxWindow

\* ---------------------------------------------------------------- state
VARIABLES
    max_tracked_lightnings,  \* coordinator.max_tracked_lightnings
    time_window_seconds,     \* coordinator.time_window_seconds
    inherited_attrs,         \* the GeolocationEvent base class resolves the
                             \* reads of _strike_id and _publication_date
    manager,                 \* "unset" | "none" | "created"
    lightning_receiver,      \* manager.lightning_cb registered
    on_tick,                 \* manager.tick registered
    strikes,                 \* Strikes: the list itself (entries)
    keys,                    \* Strikes._keys
    max_key,                 \* Strikes._max_key
    capacity,                \* Strikes._capacity
    window_seconds,          \* manager._window_seconds
    uuids,                   \* number of ids uuid.uuid4() has produced
    clock,                   \* last value read from time.time()
    notifications,           \* calls made to async_add_entities ("add") and
                             \* async_dispatcher_send ("del"), in order
    results,                 \* non-empty eviction results returned so far,
                             \* each with the operation that returned it
    last,                    \* the call that produced this state
    entities,                \* per id, how far its BlitzortungEvent entity is:
                             \* "none" | "scheduled" | "added" | "removed"
    undelivered              \* ids whose delete signal found no listener

vars == <<max_tracked_lightnings, time_window_seconds, inherited_attrs,
          manager, lightning_receiver, on_tick, strikes, keys, max_key,
          capacity, window_seconds, uuids, clock, notifications, results,
          last, entities, undelivered>>

config == <<max_tracked_lightnings, time_window_seconds, inherited_attrs>>
buffer == <<strikes, keys, max_key, capacity>>
hass   == <<entities, undelivered>>

\* ---------------------------------------------------------------- helpers
Min(a, b) == IF a < b THEN a ELSE b

\* Python slice s[0:n] for n >= 0 (the stop index is clamped to len(s)).
Slice(s, n) == SubSeq(s, 1, Min(n, Len(s)))

\* What is left of s after  del s[0:n]  /  s[0:n] = [].
DelSlice(s, n) == SubSeq(s, Min(n, Len(s)) + 1, Len(s))

\* list.insert(i, x) for 0 <= i <= len(s); i counts from 0.
ListInsert(s, i, x) == SubSeq(s, 1, i) \o <<x>> \o SubSeq(s, i + 1, Len(s))

\* bisect.bisect_right(a, x): lo, hi = 0, len(a); halve until lo = hi.
RECURSIVE BisectLoop(_, _, _, _)
BisectLoop(a, x, lo, hi) ==
    IF lo < hi
    THEN LET mid == (lo + hi) \div 2
         IN  IF x < a[mid + 1]
             THEN BisectLoop(a, x, lo, mid)
             ELSE BisectLoop(a, x, mid + 1, hi)
    ELSE lo

\* bisect_right with the comparison of bisect_left: ties go to the left.
RECURSIVE BisectLeftLoop(_, _, _, _)
BisectLeftLoop(a, x, lo, hi) ==
    IF lo < hi
    THEN LET mid == (lo + hi) \div 2
         IN  IF x <= a[mid + 1]
             THEN BisectLeftLoop(a, x, lo, mid)
             ELSE BisectLeftLoop(a, x, mid + 1, hi)
    ELSE lo

bisect_left(a, x) == BisectLeftLoop(a, x, 0, Len(a))

bisect_right(a, x) == BisectLoop(a, x, 0, Len(a))

Ids(s) == {s[i]._strike_id : i \in 1..Len(s)}

KeysOf(s) == [i \in 1..Len(s) |-> s[i]._publication_date]

RECURSIVE Flatten(_)
Flatten(ss) == IF ss = <<>> THEN <<>> ELSE Head(ss) \o Flatten(Tail(ss))

\* ---------------------------------------------------------------- Strikes
\* insort without the binary-search branch: every item is appended.
insort_always_appends(ks, es, mk, cap, item) ==
    LET k   == item._publication_date
        ks1 == Append(ks, k)
        es1 == Append(es, item)
        mk1 == IF k > mk THEN k ELSE mk
        n   == Len(es1) - cap
    IN  IF n > 0
        THEN [keys |-> DelSlice(ks1, n), strikes |-> DelSlice(es1, n),
              max_key |-> mk1, to_delete |-> Slice(es1, n)]
        ELSE [keys |-> ks1, strikes |-> es1, max_key |-> mk1,
              to_delete |-> <<>>]

\* insort whose running maximum follows the last key inserted, also when the
\* key is not a new high.
insort_tracks_last_key(ks, es, mk, cap, item) ==
    LET k    == item._publication_date
        fast == k > mk
        i    == bisect_right(ks, k)
        ks1  == IF fast THEN Append(ks, k) ELSE ListInsert(ks, i, k)
        es1  == IF fast THEN Append(es, item) ELSE ListInsert(es, i, item)
        n    == Len(es1) - cap
    IN  IF n > 0
        THEN [keys |-> DelSlice(ks1, n), strikes |-> DelSlice(es1, n),
              max_key |-> k, to_delete |-> Slice(es1, n)]
        ELSE [keys |-> ks1, strikes |-> es1, max_key |-> k,
              to_delete |-> <<>>]

\* insort that searches with bisect_left: a tied key goes before its equals.
insort_ties_first(ks, es, mk, cap, item) ==
    LET k    == item._publication_date
        i    == bisect_left(ks, k)
        ks1  == ListInsert(ks, i, k)
        es1  == ListInsert(es, i, item)
        mk1  == IF k > mk THEN k ELSE mk
        n    == Len(es1) - cap
    IN  IF n > 0
        THEN [keys |-> DelSlice(ks1, n), strikes |-> DelSlice(es1, n),
              max_key |-> mk1, to_delete |-> Slice(es1, n)]
        ELSE [keys |-> ks1, strikes |-> es1, max_key |-> mk1,
              to_delete |-> <<>>]

\* insort that trims the entries on overflow but not the keys.
insort_keeps_keys(ks, es, mk, cap, item) ==
    LET k    == item._publication_date
        fast == k > mk
        i    == bisect_right(ks, k)
        ks1  == IF fast THEN Append(ks, k) ELSE ListInsert(ks, i, k)
        es1  == IF fast THEN Append(es, item) ELSE ListInsert(es, i, item)
        mk1  == IF fast THEN k ELSE mk
        n    == Len(es1) - cap
    IN  IF n > 0
        THEN [keys |-> ks1, strikes |-> DelSlice(es1, n),
              max_key |-> mk1, to_delete |-> Slice(es1, n)]
        ELSE [keys |-> ks1, strikes |-> es1, max_key |-> mk1,
              to_delete |-> <<>>]

\* Strikes.insort(item) on the buffer (ks, es, mk, cap): the new buffer and
\* the returned to_delete.
insort(ks, es, mk, cap, item) ==
    LET k    == item._publication_date
        fast == k > mk
        i    == bisect_right(ks, k)
        ks1  == IF fast THEN Append(ks, k) ELSE ListInsert(ks, i, k)
        es1  == IF fast THEN Append(es, item) ELSE ListInsert(es, i, item)
        mk1  == IF fast THEN k ELSE mk
        n    == Len(es1) - cap
    IN  IF n > 0
        THEN [keys |-> DelSlice(ks1, n), strikes |-> DelSlice(es1, n),
              max_key |-> mk1, to_delete |-> Slice(es1, n)]
        ELSE [keys |-> ks1, strikes |-> es1, max_key |-> mk1,
              to_delete |-> <<>>]

\* cleanup that removes one entry fewer than it returns (self[0:i-1] = []).
cleanup_returns_kept(ks, es, k) ==
    IF ks = <<>> \/ ks[1] > k
    THEN [keys |-> ks, strikes |-> es, to_delete |-> <<>>]
    ELSE LET i == bisect_right(ks, k)
         IN  IF i = 0
             THEN [keys |-> ks, strikes |-> es, to_delete |-> <<>>]
             ELSE [keys |-> DelSlice(ks, i), strikes |-> DelSlice(es, i - 1),
                   to_delete |-> Slice(es, i)]

\* cleanup whose early return compares with >= : a front key equal to the
\* threshold is kept.
cleanup_strict(ks, es, k) ==
    IF ks = <<>> \/ ks[1] >= k
    THEN [keys |-> ks, strikes |-> es, to_delete |-> <<>>]
    ELSE LET i == bisect_right(ks, k)
         IN  IF i = 0
             THEN [keys |-> ks, strikes |-> es, to_delete |-> <<>>]
             ELSE [keys |-> DelSlice(ks, i), strikes |-> DelSlice(es, i),
                   to_delete |-> Slice(es, i)]

\* cleanup that removes only the front entry of the expired prefix
\* (del self._keys[0:1]).
cleanup_front_only(ks, es, k) ==
    IF ks = <<>> \/ ks[1] > k
    THEN [keys |-> ks, strikes |-> es, to_delete |-> <<>>]
    ELSE [keys |-> DelSlice(ks, 1), strikes |-> DelSlice(es, 1),
          to_delete |-> Slice(es, 1)]

\* cleanup without the early returns that deletes one index too many
\* (self[0:i+1]).
cleanup_one_more(ks, es, k) ==
    LET i == bisect_right(ks, k)
    IN  [keys |-> DelSlice(ks, i + 1), strikes |-> DelSlice(es, i + 1),
         to_delete |-> Slice(es, i + 1)]

\* Strikes.cleanup(k) on the buffer (ks, es): the new buffer and the returned
\* to_delete.
cleanup(ks, es, k) ==
    IF ks = <<>> \/ ks[1] > k
    THEN [keys |-> ks, strikes |-> es, to_delete |-> <<>>]
    ELSE LET i == bisect_right(ks, k)
         IN  IF i = 0
             THEN [keys |-> ks, strikes |-> es, to_delete |-> <<>>]
             ELSE [keys |-> DelSlice(ks, i), strikes |-> DelSlice(es, i),
                   to_delete |-> Slice(es, i)]

\* ---------------------------------------------------------------- events
Fields == <<"distance", "lat", "lon", "time", "status", "region">>

FieldSet == {Fields[i] : i \in 1..Len(Fields)}

\* A payload: which field it lacks (if any), whether "time" is a number, and
\* the number.  Only the time of a complete payload is ever read.
Payloads ==
    {[missing |-> "none", time_ok |-> TRUE, time |-> t] : t \in Times}
    \cup {[missing |-> m, time_ok |-> b, time |-> 0] :
        m \in FieldSet, b \in BOOLEAN}
    \cup {[missing |-> "none", time_ok |-> FALSE, time |-> 0]}

WellFormed(p) == p.missing = "none" /\ p.time_ok

\* time / 1e9
PublicationDate(time) == time \div NsPerSec

\* BlitzortungEvent(...) as called by lightning_cb, statement by statement:
\*  - the subscripts lightning["..."] of the argument list raise KeyError
\*    for a field the payload lacks;
\*  - __init__ builds _attr_extra_state_attributes from self._strike_id and
\*    self._publication_date before it has assigned either.  The instance
\*    has no such attribute yet, so the lookup goes to the classes it
\*    inherits from (GeolocationEvent, outside this repository): it raises
\*    AttributeError unless they supply the names (inherited);
\*  - time / 1e9 raises TypeError when time is not a number;
\*  - uuid.uuid4() then gives the fresh id.
BlitzortungEvent(p, inherited, fresh) ==
    IF p.missing # "none"
    THEN [exc |-> "KeyError", _strike_id |-> 0, _publication_date |-> 0]
    ELSE IF ~inherited
    THEN [exc |-> "AttributeError", _strike_id |-> 0, _publication_date |-> 0]
    ELSE IF ~p.time_ok
    THEN [exc |-> "TypeError", _strike_id |-> 0, _publication_date |-> 0]
    ELSE [exc |-> "none", _strike_id |-> fresh,
          _publication_date |-> PublicationDate(p.time)]

\* _remove_events that signals only the first event of the list.
_remove_events_first(events) ==
    IF events = <<>> THEN <<>> ELSE <<<<"del", events[1]._strike_id>>>>

\* _remove_events(events): one dispatcher send per event, in list order.
_remove_events(events) == [i \in 1..Len(events) |-> <<"del", events[i]._strike_id>>]

NoCall == [op |-> "none", exc |-> "none", payload_ok |-> FALSE, id |-> 0,
           k |-> 0, to_delete |-> <<>>, emitted |-> <<>>]

\* ---------------------------------------------------------------- Init
Init ==
    /\ max_tracked_lightnings \in Capacities
    /\ time_window_seconds \in Windows
    /\ inherited_attrs \in BOOLEAN
    /\ manager = "unset"
    /\ lightning_receiver = FALSE
    /\ on_tick = FALSE
    /\ strikes = <<>>
    /\ keys = <<>>
    /\ max_key = 0
    /\ capacity = 0
    /\ window_seconds = 0
    /\ uuids = 0
    /\ clock = 0
    /\ notifications = <<>>
    /\ results = <<>>
    /\ last = NoCall
    /\ entities = [id \in 1..MaxStrikes |-> "none"]
    /\ undelivered = {}

\* ---------------------------------------------------------------- actions
\* async_setup_entry
async_setup_entry ==
    /\ manager = "unset"
    /\ IF max_tracked_lightnings = 0
       THEN /\ manager' = "none"
            /\ UNCHANGED <<lightning_receiver, on_tick, buffer, window_seconds>>
       ELSE /\ manager' = "created"
            /\ strikes' = <<>>
            /\ keys' = <<>>
            /\ max_key' = 0
            /\ capacity' = max_tracked_lightnings
            /\ window_seconds' = time_window_seconds
            /\ lightning_receiver' = TRUE
            /\ on_tick' = TRUE
    /\ last' = [NoCall EXCEPT !.op = "setup"]
    /\ UNCHANGED <<config, uuids, clock, notifications, results>>

\* lightning_cb that sends the removals before it adds the new entity.
lightning_cb_removes_first(event, to_delete) ==
    (IF to_delete # <<>> THEN _remove_events(to_delete) ELSE <<>>)
    \o <<<<"add", event._strike_id>>>>

\* What lightning_cb sends after insort returned to_delete: the new entity to
\* async_add_entities, then the removals when to_delete is not empty.
lightning_cb_sends(event, to_delete) ==
    <<<<"add", event._strike_id>>>>
    \o (IF to_delete # <<>> THEN _remove_events(to_delete) ELSE <<>>)

\* tick that drops the result of cleanup without signalling.
tick_sends_nothing(to_delete) == <<>>

\* What tick sends after cleanup returned to_delete.
tick_sends(to_delete) ==
    IF to_delete # <<>> THEN _remove_events(to_delete) ELSE <<>>

\* lightning_cb left by an exception raised while the event is built.
Raise(p, exc) ==
    /\ last' = [NoCall EXCEPT !.op = "lightning_cb", !.exc = exc,
                              !.payload_ok = WellFormed(p)]
    /\ UNCHANGED <<buffer, uuids, notifications, results>>

\* lightning_cb from the insort call on; exc is the outcome of the call.
Ingest(p, item, exc) ==
    /\ uuids < MaxStrikes
    /\ LET r   == insort(keys, strikes, max_key, capacity, item)
           out == lightning_cb_sends(item, r.to_delete)
       IN  /\ uuids' = uuids + 1
           /\ keys' = r.keys
           /\ strikes' = r.strikes
           /\ max_key' = r.max_key
           /\ notifications' = notifications \o out
           /\ results' = IF r.to_delete # <<>>
                         THEN Append(results, [op |-> "insort",
                                               items |-> r.to_delete])
                         ELSE results
           /\ last' = [op |-> "lightning_cb", exc |-> exc,
                       payload_ok |-> WellFormed(p),
                       id |-> item._strike_id,
                       k |-> item._publication_date,
                       to_delete |-> r.to_delete,
                       emitted |-> out]
           /\ UNCHANGED capacity

\* lightning_cb that inserts the record before the time is converted: a
\* wrong-typed time raises after insort has run.
lightning_cb_unvalidated(p) ==
    /\ lightning_receiver
    /\ LET event == BlitzortungEvent([p EXCEPT !.time_ok = TRUE],
                                     inherited_attrs, uuids + 1)
       IN  IF event.exc # "none"
           THEN Raise(p, event.exc)
           ELSE Ingest(p, [_strike_id |-> event._strike_id,
                           _publication_date |-> event._publication_date],
                       IF p.time_ok THEN "none" ELSE "TypeError")
    /\ UNCHANGED <<config, manager, lightning_receiver, on_tick,
                   window_seconds, clock>>

\* BlitzortungEventManager.lightning_cb(lightning)
lightning_cb(p) ==
    /\ lightning_receiver
    /\ LET event == BlitzortungEvent(p, inherited_attrs, uuids + 1)
       IN  IF event.exc # "none"
           THEN Raise(p, event.exc)
           ELSE Ingest(p, [_strike_id |-> event._strike_id,
                           _publication_date |-> event._publication_date],
                       "none")
    /\ UNCHANGED <<config, manager, lightning_receiver, on_tick,
                   window_seconds, clock>>

\* tick with the window added to the clock instead of subtracted.
threshold_ahead(now, window) == now + window

\* The argument tick passes to cleanup: time.time() - self._window_seconds.
threshold(now, window) == now - window

\* BlitzortungEventManager.tick() when time.time() returns now
tick(now) ==
    /\ on_tick
    /\ clock' = now
    /\ LET k   == threshold(now, window_seconds)
           r   == cleanup(keys, strikes, k)
           out == tick_sends(r.to_delete)
       IN  /\ keys' = r.keys
           /\ strikes' = r.strikes
           /\ notifications' = notifications \o out
           /\ results' = IF r.to_delete # <<>>
                         THEN Append(results, [op |-> "cleanup",
                                               items |-> r.to_delete])
                         ELSE results
           /\ last' = [NoCall EXCEPT !.op = "tick", !.k = k,
                                     !.to_delete = r.to_delete,
                                     !.emitted = out]
    /\ UNCHANGED <<config, manager, lightning_receiver, on_tick, max_key,
                   capacity, window_seconds, uuids>>

\* The manager and its buffer; the entities of the platform are not followed.
Next ==
    \/ async_setup_entry /\ UNCHANGED hass
    \/ \E p \in Payloads : lightning_cb(p) /\ UNCHANGED hass
    \/ \E now \in clock..MaxClock : tick(now) /\ UNCHANGED hass

Spec == Init /\ [][Next]_vars

\* The coordinator keeps calling the registered tick callback and the wall
\* clock keeps advancing: a tick at the latest clock value is never put off
\* forever.
SpecLive == Init /\ [][Next]_vars /\ WF_vars(tick(MaxClock) /\ UNCHANGED hass)

\* ---------------------------------------------------------------- entities
\* What the platform and the dispatcher do with the calls of one handler, in
\* order.  async_add_entities([event]) schedules the entity; it is added,
\* and async_added_to_hass connects its delete listener, either before
\* async_add_entities returns (eager) or in a later task of the event loop.
\* async_dispatcher_send runs the listeners connected at that moment:
\* _delete_callback disconnects and removes the entity; with no listener
\* the signal is dropped.
RECURSIVE Deliver(_, _, _)
Deliver(h, sends, eager) ==
    IF sends = <<>>
    THEN h
    ELSE LET n  == Head(sends)
             id == n[2]
             h1 == IF n[1] = "add"
                   THEN [h EXCEPT !.entities[id] =
                            IF eager THEN "added" ELSE "scheduled"]
                   ELSE IF h.entities[id] = "added"
                   THEN [h EXCEPT !.entities[id] = "removed"]
                   ELSE [h EXCEPT !.undelivered = @ \cup {id}]
         IN  Deliver(h1, Tail(sends), eager)

Delivered(eager) ==
    LET h == Deliver([entities |-> entities, undelivered |-> undelivered],
                     last'.emitted, eager)
    IN  /\ entities' = h.entities
        /\ undelivered' = h.undelivered

hass_setup == async_setup_entry /\ UNCHANGED hass

hass_lightning_cb(p) ==
    /\ lightning_cb(p)
    /\ \E eager \in BOOLEAN : Delivered(eager)

hass_tick(now) == tick(now) /\ Delivered(FALSE)

\* BlitzortungEvent.async_added_to_hass, run by the task that adds the entity
async_added_to_hass(id) ==
    /\ entities[id] = "scheduled"
    /\ entities' = [entities EXCEPT ![id] = "added"]
    /\ UNCHANGED <<config, manager, lightning_receiver, on_tick, buffer,
                   window_seconds, uuids, clock, notifications, results,
                   last, undelivered>>

NextHass ==
    \/ hass_setup
    \/ \E p \in Payloads : hass_lightning_cb(p)
    \/ \E now \in clock..MaxClock : hass_tick(now)
    \/ \E id \in 1..MaxStrikes : async_added_to_hass(id)

SpecHass == Init /\ [][NextHass]_vars

\* ---------------------------------------------------------------- properties
Count(s, id) == Cardinality({i \in 1..Len(s) : s[i]._strike_id = id})

\* Every record some eviction result returned, in the order returned.
Evicted == Flatten([i \in 1..Len(results) |-> results[i].items])

Sorted(ks) == \A i \in 1..(Len(ks) - 1) : ks[i] <= ks[i + 1]

Inserted(op) == op.op = "lightning_cb" /\ op.exc = "none"

\* The last call reached the buffer (insort or cleanup was called).
AfterCall == Inserted(last) \/ last.op = "tick"

\* C1: every record passed to insort is either in the buffer exactly once and
\* in no eviction result, or not in the buffer and in exactly one eviction
\* result, exactly once; the buffer and the results hold nothing else.
C1_ExactlyOnce ==
    /\ \A id \in 1..uuids : Count(strikes, id) + Count(Evicted, id) = 1
    /\ Ids(strikes) \cup Ids(Evicted) \subseteq 1..uuids

\* Some record is still in the buffer after both eviction paths have returned
\* records.
C1_Witness ==
    /\ strikes # <<>>
    /\ \E i, j \in 1..Len(results) :
          results[i].op = "insort" /\ results[j].op = "cleanup"

\* C2: the key sequence of the buffer is non-decreasing after every call.
C2_Order == Sorted(keys)

\* An out-of-order (or duplicate-key) insertion into a buffer of at least two
\* keys, after an eviction has emptied the buffer at least once.
C2_Witness ==
    /\ Inserted(last)
    /\ last.k <= max_key
    /\ Len(keys) >= 2
    /\ last.to_delete = <<>>
    /\ \E i \in 1..Len(results) : results[i].op = "cleanup"
    /\ keys[Len(keys)] # last.k

\* C3: after each call the number of entries equals the number of keys and is
\* at most the capacity.
C3_Capacity ==
    AfterCall => (Len(strikes) = Len(keys) /\ Len(strikes) <= capacity)

\* C4 as stated: insort into a full buffer evicts exactly one record; the new
\* record when its key is smallest (a tie with the front key included), the
\* front record otherwise.
C4_Original ==
    [][(Inserted(last') /\ Len(strikes) = capacity)
        => /\ Len(last'.to_delete) = 1
           /\ IF last'.k <= keys[1]
              THEN last'.to_delete[1]._strike_id = last'.id
              ELSE last'.to_delete[1] = strikes[1]]_vars

\* C4: insort into a full buffer evicts exactly one record, one of smallest
\* key: the new record when its key is strictly smaller than every key in the
\* buffer, the front record otherwise (so on a tie with the front key the
\* record already in the buffer is evicted and the new one stays).
C4_CapacityEviction ==
    [][(Inserted(last') /\ Len(strikes) = capacity)
        => /\ Len(last'.to_delete) = 1
           /\ \A i \in 1..Len(strikes') :
                 last'.to_delete[1]._publication_date
                     <= strikes'[i]._publication_date
           /\ IF last'.k < keys[1]
              THEN /\ last'.to_delete[1]._strike_id = last'.id
                   /\ strikes' = strikes
              ELSE /\ last'.to_delete[1] = strikes[1]
                   /\ last'.id \in Ids(strikes')]_vars

\* A full buffer received a record whose key equals the front key: the old
\* front record was evicted.
C4_Witness ==
    /\ Inserted(last)
    /\ Len(strikes) = capacity
    /\ Len(last.to_delete) = 1
    /\ last.to_delete[1]._publication_date = last.k
    /\ last.to_delete[1]._strike_id # last.id
    /\ last.id \in Ids(strikes)

\* C5: cleanup(t) returns exactly the records with key <= t, which form a
\* prefix of the buffer, in ascending key order, and leaves exactly the
\* records with key > t in their order.
C5_AgeEviction ==
    [][last'.op = "tick"
        => LET t    == last'.k
               Old(r) == r._publication_date <= t
               New(r) == r._publication_date > t
           IN  /\ last'.to_delete = SelectSeq(strikes, Old)
               /\ strikes' = SelectSeq(strikes, New)
               /\ last'.to_delete \o strikes' = strikes
               /\ Sorted(KeysOf(last'.to_delete))]_vars

\* A tick removed a record whose key equals the threshold and left another.
C5_Witness ==
    /\ last.op = "tick"
    /\ last.to_delete # <<>>
    /\ strikes # <<>>
    /\ last.to_delete[Len(last.to_delete)]._publication_date = last.k

IsDel(n) == n[1] = "del"

IsAdd(n) == n[1] = "add"

\* The ids of the notifications of one kind, in the order sent.
Sent(log, Kind(_)) ==
    LET sel == SelectSeq(log, Kind) IN [i \in 1..Len(sel) |-> sel[i][2]]

IdSeq(s) == [i \in 1..Len(s) |-> s[i]._strike_id]

NoDuplicates(s) == \A i, j \in 1..Len(s) : s[i] = s[j] => i = j

\* C6: the removal notifications sent are exactly the ids of the records the
\* eviction results returned, each once and in the order returned; none is
\* for a record still in the buffer; the removals of one call follow the
\* order of its eviction result.
C6_Removals ==
    /\ Sent(notifications, IsDel) = IdSeq(Evicted)
    /\ NoDuplicates(Sent(notifications, IsDel))
    /\ \A i \in 1..Len(notifications) :
          IsDel(notifications[i]) => notifications[i][2] \notin Ids(strikes)
    /\ Sent(last.emitted, IsDel) = IdSeq(last.to_delete)

\* A tick removed two records at once after a capacity eviction had removed
\* another, and all three removals were sent.
C6_Witness ==
    /\ last.op = "tick"
    /\ Len(last.to_delete) = 2
    /\ \E i \in 1..Len(results) : results[i].op = "insort"
    /\ Len(Sent(notifications, IsDel)) >= 3

\* C7: every lightning_cb call that built its record sends the creation
\* notification for it, first, whether or not the call evicts the record;
\* so a removal notification for an id always comes after its creation
\* notification.
C7_CreatedFirst ==
    /\ Inserted(last) =>
          /\ last.emitted # <<>>
          /\ last.emitted[1] = <<"add", last.id>>
          /\ Sent(last.emitted, IsAdd) = <<last.id>>
    /\ Sent(notifications, IsAdd) = [i \in 1..uuids |-> i]
    /\ \A j \in 1..Len(notifications) :
          IsDel(notifications[j]) =>
             \E i \in 1..(j - 1) :
                notifications[i] = <<"add", notifications[j][2]>>

\* A call into a full buffer evicted the record it had just created.
C7_Witness ==
    /\ Inserted(last)
    /\ last.id \in Ids(last.to_delete)
    /\ Len(strikes) = capacity
    /\ capacity > 0

\* C8: lightning_cb with a well-formed payload succeeds, with a fresh id, and
\* the record is then in the buffer or in the eviction result of the call.
C8_WellFormedSucceeds ==
    [][(last'.op = "lightning_cb" /\ last'.payload_ok)
        => /\ last'.exc = "none"
           /\ last'.id \notin Ids(strikes) \cup Ids(Evicted)
           /\ last'.id \in Ids(strikes') \cup Ids(last'.to_delete)]_vars

\* C9: a lightning_cb call that fails leaves entries, keys, running maximum
\* and capacity as they were and sends nothing; nothing a later call reads
\* has changed.
C9_AllOrNothing ==
    [][(last'.op = "lightning_cb" /\ last'.exc # "none")
        => /\ strikes' = strikes
           /\ keys' = keys
           /\ max_key' = max_key
           /\ capacity' = capacity
           /\ notifications' = notifications
           /\ last'.emitted = <<>>
           /\ results' = results
           /\ uuids' = uuids
           /\ clock' = clock
           /\ window_seconds' = window_seconds
           /\ lightning_receiver' = lightning_receiver
           /\ on_tick' = on_tick]_vars

\* A payload with a wrong-typed time failed against a buffer that holds
\* records, where the constructor gets as far as the division.
C9_Witness ==
    /\ last.op = "lightning_cb"
    /\ last.exc = "TypeError"
    /\ strikes # <<>>
    /\ notifications # <<>>

\* C10: when max_tracked_lightnings is zero or negative, setup creates no
\* manager and registers neither callback, and no buffer has capacity <= 0.
C10_ConfigGuard ==
    /\ (manager # "unset" /\ max_tracked_lightnings <= 0)
          => (manager = "none" /\ ~lightning_receiver /\ ~on_tick)
    /\ manager = "created" => capacity > 0

\* C11: a tick at clock value now leaves no record with key <= now - window,
\* keeps every record with a larger key that was present, and sends one
\* removal notification for each record it removed.
C11_Tick ==
    [][last'.op = "tick"
        => LET t == clock' - window_seconds
           IN  /\ last'.k = t
               /\ \A i \in 1..Len(strikes') : strikes'[i]._publication_date > t
               /\ \A i \in 1..Len(strikes) :
                     strikes[i]._publication_date > t
                        => strikes[i] \in {strikes'[j] : j \in 1..Len(strikes')}
               /\ Ids(strikes) \ Ids(strikes') = Ids(last'.to_delete)
               /\ notifications'
                     = notifications \o [i \in 1..Len(last'.to_delete) |->
                          <<"del", last'.to_delete[i]._strike_id>>]]_vars

\* A tick removed the records inside the threshold and kept a younger one.
C11_Witness ==
    /\ last.op = "tick"
    /\ last.k = clock - window_seconds
    /\ last.to_delete # <<>>
    /\ strikes # <<>>
    /\ Len(Sent(notifications, IsDel)) >= 1

\* The thresholds a tick can pass to cleanup, and one below them.
Thresholds == (0 - MaxWindow - 1)..(MaxClock - 1)

\* C12: right after cleanup(t) has returned, cleanup(t2) with any t2 <= t
\* returns an empty result and leaves entries and keys as they are.
C12_Idempotent ==
    last.op = "tick"
       => \A t2 \in Thresholds :
             t2 <= last.k
                => LET r == cleanup(keys, strikes, t2)
                   IN  /\ r.to_delete = <<>>
                       /\ r.strikes = strikes
                       /\ r.keys = keys

\* cleanup(t) has just returned records and left others, so a second call
\* has something it could wrongly remove.
C12_Witness ==
    /\ last.op = "tick"
    /\ last.to_delete # <<>>
    /\ Len(strikes) >= 1
    /\ last.k \in Thresholds
    /\ last.k - 1 \in Thresholds

\* C13: no delete signal is sent for an id whose entity has no listener
\* connected, so every record a removal notification was sent for has had its
\* entity removed.
\* (Stated for a positive capacity, so that it does not rest on a negative
\* one being configured.)
C13_Subscribed ==
    capacity > 0
       => /\ undelivered = {}
          /\ \A i \in 1..Len(notifications) :
                IsDel(notifications[i])
                   => entities[notifications[i][2]] = "removed"

\* The reference insertion: the item goes after all entries with key <= its
\* key, then the overflow is dropped from the front.
Reference(es, cap, item) ==
    LET pos == Cardinality({i \in 1..Len(es) :
                   es[i]._publication_date <= item._publication_date})
        es1 == SubSeq(es, 1, pos) \o <<item>> \o SubSeq(es, pos + 1, Len(es))
        n   == IF Len(es1) - cap > 0 THEN Min(Len(es1) - cap, Len(es1)) ELSE 0
    IN  [strikes |-> SubSeq(es1, n + 1, Len(es1)),
         to_delete |-> SubSeq(es1, 1, n)]

\* C14: whichever path insort takes, the buffer and the eviction result are
\* those of the reference insertion, and the running maximum is never below
\* a key present in the buffer.
C14_FastPath ==
    [][/\ \A i \in 1..Len(keys') : keys'[i] <= max_key'
       /\ Inserted(last')
             => LET ref == Reference(strikes, capacity,
                               [_strike_id |-> last'.id,
                                _publication_date |-> last'.k])
                IN  /\ strikes' = ref.strikes
                    /\ last'.to_delete = ref.to_delete
                    /\ keys' = KeysOf(ref.strikes)]_vars

\* A record was inserted below the running maximum after the record that had
\* set the maximum was evicted.
C14_Witness ==
    /\ Inserted(last)
    /\ last.id \in Ids(strikes)
    /\ Len(keys) >= 2
    /\ last.k < keys[Len(keys)]
    /\ \A i \in 1..Len(keys) : keys[i] < max_key

\* Among the records of s with one key, positions follow ids (arrival order).
ArrivalOrder(s) ==
    \A i, j \in 1..Len(s) :
       (i < j /\ s[i]._publication_date = s[j]._publication_date)
          => s[i]._strike_id < s[j]._strike_id

\* C15: records with equal keys stand in the buffer in the order they were
\* inserted, are evicted in that order, and their removal notifications are
\* sent in that order.
C15_TieOrder ==
    /\ ArrivalOrder(strikes)
    /\ ArrivalOrder(Evicted)
    /\ ArrivalOrder(Evicted \o strikes)
    /\ ArrivalOrder(last.to_delete)
    /\ Sent(notifications, IsDel) = IdSeq(Evicted)

\* Two records with one key were in the buffer together and one tick has
\* reported both.
C15_Witness ==
    /\ last.op = "tick"
    /\ Len(last.to_delete) = 2
    /\ last.to_delete[1]._publication_date = last.to_delete[2]._publication_date

\* C16: after every call keys and entries have the same length and keys[i]
\* is the sort key of entries[i] for every i, so each eviction has removed
\* the same index range from both.
C16_Aligned ==
    /\ Len(keys) = Len(strikes)
    /\ \A i \in 1..Len(strikes) : keys[i] = strikes[i]._publication_date

\* A capacity eviction has just trimmed a buffer that still holds two
\* records with different keys.
C16_Witness ==
    /\ Inserted(last)
    /\ last.to_delete # <<>>
    /\ Len(strikes) = 2
    /\ keys[1] < keys[2]

Dels(s) == [i \in 1..Len(s) |-> <<"del", s[i]._strike_id>>]

\* C17: two ticks in succession with thresholds t1 <= t2 and no call in
\* between leave the buffer that cleanup(t2) alone leaves on the buffer the
\* first tick started from, and together evict the same records in the same
\* order.
C17_Cumulative ==
    [][(last.op = "tick" /\ last'.op = "tick" /\ last.k <= last'.k)
        => LET orig == last.to_delete \o strikes
               once == cleanup(KeysOf(orig), orig, last'.k)
           IN  /\ strikes' = once.strikes
               /\ keys' = once.keys
               /\ last.to_delete \o last'.to_delete = once.to_delete]_vars

\* Two ticks have each evicted records, with no insertion between them.
C17_Witness ==
    /\ last.op = "tick"
    /\ last.to_delete # <<>>
    /\ Len(results) >= 2
    /\ results[Len(results) - 1].op = "cleanup"
    /\ LET both == Dels(results[Len(results) - 1].items)
                   \o Dels(results[Len(results)].items)
       IN  /\ Len(notifications) >= Len(both)
           /\ SubSeq(notifications, Len(notifications) - Len(both) + 1,
                     Len(notifications)) = both

\* C18: a tick on an empty buffer, or on one whose smallest key is above the
\* threshold, returns an empty result, leaves entries, keys, running maximum
\* and capacity as they are and sends no notification.
C18_NoOpTick ==
    [][(/\ last'.op = "tick"
        /\ \A i \in 1..Len(strikes) : strikes[i]._publication_date > last'.k)
        => /\ last'.to_delete = <<>>
           /\ last'.emitted = <<>>
           /\ strikes' = strikes
           /\ keys' = keys
           /\ max_key' = max_key
           /\ capacity' = capacity
           /\ notifications' = notifications
           /\ results' = results]_vars

\* A tick found a buffer with records, all younger than the threshold.
C18_Witness ==
    /\ last.op = "tick"
    /\ last.to_delete = <<>>
    /\ strikes # <<>>
    /\ keys[1] > last.k
    /\ keys[1] = last.k + 1

\* Every record inserted so far is out of the buffer and its removal
\* notification has been sent.
AllEvicted ==
    /\ strikes = <<>>
    /\ \A id \in 1..uuids :
          \E i \in 1..Len(notifications) : notifications[i] = <<"del", id>>

\* C19: with ticks that keep coming and a clock that advances past every key
\* plus the window, again and again every record inserted so far has left
\* the buffer with its removal notification sent; so each inserted record is
\* eventually evicted and signalled, and none stays forever.
C19_EventuallyEvicted == []<>AllEvicted

\* At the latest clock value a tick has emptied a buffer of records that
\* capacity had not evicted.
C19_Witness ==
    /\ last.op = "tick"
    /\ clock = MaxClock
    /\ last.to_delete # <<>>
    /\ strikes = <<>>
    /\ uuids = MaxStrikes
    /\ Len(Sent(notifications, IsDel)) = MaxStrikes

====
